---- MODULE Spec2Model ----
(***************************************************************************)
(* The DHCP lease reconciler (maasserver.rpc.leases.update_lease, known    *)
(* here through src/src/maasserver/rpc/tests/test_leases.py and spec.md)   *)
(* and the DNS zone generator (src/src/maasserver/dns/zonegenerator.py).   *)
(***************************************************************************)
EXTENDS Integers, Sequences, FiniteSets, TLC

\* ------------------------------------------------------------------ bounds

\* Number of lease events one behaviour applies.
MaxEvents == 2

\* Number of processes that apply lease events concurrently, and the number
\* of events they take up between them.
NumProcs == 2

MaxConcEvents == 2

\* Number of times one ZoneGenerator is iterated.
MaxPasses == 2

\* Lease commits that reach the store while the zone generator runs.
MaxCommits == 2

\* ------------------------------------------------------- the lease store

None == "None"

\* A null ip, a null subnet and a null lease_time.
NoIP == [version |-> 0, net |-> 0, host |-> 0]

NoSubnet == [id |-> 0, version |-> 0, net |-> 0, vlan |-> 0]

NullLease == 0

\* IPADDRESS_TYPE: only DISCOVERED is touched by lease events.
DISCOVERED == "discovered"
STICKY == "sticky"

\* An address is its version, the number of its network and its host part.
IPs ==
    { [version |-> 4, net |-> 1, host |-> 5],
      [version |-> 4, net |-> 2, host |-> 5],
      [version |-> 6, net |-> 1, host |-> 5],
      [version |-> 4, net |-> 9, host |-> 5] }

\* str(ip): the textual form the event carries and the messages echo.
IPText(ip) ==
    IF ip.version = 4
    THEN "10." \o ToString(ip.net) \o ".0." \o ToString(ip.host)
    ELSE "fd00:" \o ToString(ip.net) \o "::" \o ToString(ip.host)

\* The subnets of the store: two IPv4 subnets and one IPv6 subnet.
Subnets ==
    { [id |-> 1, version |-> 4, net |-> 1, vlan |-> 1],
      [id |-> 2, version |-> 4, net |-> 2, vlan |-> 2],
      [id |-> 3, version |-> 6, net |-> 1, vlan |-> 1] }

SubnetById(sid) == CHOOSE s \in Subnets : s.id = sid

\* Subnet.objects.get_best_subnet_for_ip(ip): the subnet holding ip, or none.
get_best_subnet_for_ip(ip) ==
    LET holding == { s \in Subnets : s.version = ip.version /\ s.net = ip.net }
    IN  IF holding = {} THEN NoSubnet ELSE CHOOSE s \in holding : TRUE

\* make_kwargs: ip_family is "ipv4" unless IPAddress(ip).version is IPv6.
FamilyName(version) == IF version = 6 THEN "ipv6" ELSE "ipv4"

\* m1 is the MAC of a registered interface; no interface carries m2 until
\* a lease event names it.
MACs == { "m1", "m2" }

\* The boot interface of a node (make_Node_with_Interface_on_Subnet) and,
\* in test_creates_lease_for_bond_interface, a bond built on it that shares
\* its MAC.
BootInterface ==
    [id |-> 1, type |-> "physical", mac_address |-> "m1", vlan |-> 1]

BondInterface ==
    [id |-> 2, type |-> "bond", mac_address |-> "m1", vlan |-> 1]

\* An administratively configured address on the boot interface.
InitAddresses ==
    { [id |-> 1, alloc_type |-> STICKY,
       ip |-> [version |-> 4, net |-> 1, host |-> 9], subnet |-> 1,
       lease_time |-> NullLease, created |-> 0, updated |-> 0,
       interface_set |-> {1}] }

\* int(time.time()) of two events.
Timestamps == { 1, 2 }

LeaseTimes == { 30, 60 }

Actions == { "commit", "release", "expiry", "renew", "Commit" }

\* The keyword arguments of update_lease, as make_kwargs builds them:
\* lease_time is given for a commit only.
Events ==
    { e \in [action : Actions, mac : MACs, ip : IPs,
             ip_family : { "ipv4", "ipv6" }, timestamp : Timestamps,
             lease_time : LeaseTimes \cup { NullLease }] :
        (e.action = "commit") <=> (e.lease_time # NullLease) }

NoEvent == [action |-> None]

VARIABLES
    interfaces,   \* Interface rows (UnknownInterface rows among them)
    addresses,    \* StaticIPAddress rows
    nextIface,    \* next Interface id
    nextSip,      \* next StaticIPAddress id
    lastEvent,    \* the event update_lease was last called with
    result,       \* "ok", or the message of the LeaseUpdateError it raised
    replay,       \* the last event repeats the event applied before it
    nEvents       \* number of events applied

leaseVars == <<interfaces, addresses, nextIface, nextSip, lastEvent, result,
               replay, nEvents>>

\* Concurrent application of lease events, one transaction per process.
VARIABLES
    tuple,        \* the (subnet, MAC, family) the concurrent events are for
    pc,           \* per process: idle, wait, read, write, unlock
    pevent,       \* per process: the event it applies
    pfound,       \* per process: the interfaces its lookup found
    pexisting,    \* per process: the DISCOVERED rows its lookup found
    locks,        \* the tuples locked by a transaction in progress
    started       \* number of events taken up

concVars == <<tuple, pc, pevent, pfound, pexisting, locks, started>>


\* The zone generator and the store it reads.
VARIABLES
    managesDns,   \* nodegroup.manages_dns(), per node group
    setOrder,     \* the order in which a set of node groups iterates
    hostmap,      \* the hostname -> ip mapping of each node group
    kmsHost,      \* the windows_kms_host setting
    zgNodegroups, \* ZoneGenerator.nodegroups
    zgSerial,     \* ZoneGenerator.serial
    zgHasGen,     \* ZoneGenerator.serial_generator is not None
    genCalls,     \* calls of serial_generator so far
    zpc,          \* idle, forward_start, forward, reverse, raised
    serial,       \* the serial __iter__ hands to both generators
    fwdRest,      \* forward node groups still to emit, sorted by domain
    revGroups,    \* reverse_nodegroups
    revRest,      \* reverse node groups still to emit, in sorted() order
    revIdx,       \* position in the networks of the first of revRest
    mappings,     \* the lazydict of hostname -> ip mappings
    networks,     \* the lazydict of network details
    srvFresh,     \* the srv_mappings generator has not been consumed
    dnsIp,        \* dns_ip of the forward generator
    dnsCalls,     \* calls of get_dns_server_address in this pass
    warnings,     \* warn_loopback warnings in this pass
    mapQueries,   \* get_hostname_ip_mapping calls in this pass, per group
    ifaceQueries, \* get_managed_interfaces calls in this pass, per group
    out,          \* the zones this pass has yielded
    zerr,         \* the exception that ended the pass, or None
    passes,       \* what the completed passes yielded
    ends,         \* how each pass ended: its exception and its dns_ip
    storeQueries, \* NodeGroup.objects queries in this pass
    dnsAnswer,    \* what get_maas_facing_server_address did in this pass
    snapshot,     \* the mappings as the pass's transaction sees them
    storeHistory, \* the mappings the store has held since the pass began
    builtAt       \* for each zone of `out`, the place in storeHistory at
                  \* which it was built

zoneStore == <<managesDns, setOrder, hostmap, kmsHost, zgNodegroups, zgSerial,
               zgHasGen>>

zonePass == <<genCalls, zpc, serial, fwdRest, revGroups, revRest, revIdx,
              mappings, networks, srvFresh, dnsIp, dnsCalls, warnings,
              mapQueries, ifaceQueries, out, zerr, passes, ends,
              storeQueries, dnsAnswer, snapshot, storeHistory, builtAt>>

zoneVars == <<zoneStore, zonePass>>

vars == <<leaseVars, concVars, zoneVars>>

db == [interfaces |-> interfaces, addresses |-> addresses,
       nextIface |-> nextIface, nextSip |-> nextSip]

\* The address family of a row: of its ip, or of its subnet when ip is null.
RowFamily(r) ==
    IF r.ip # NoIP THEN r.ip.version ELSE SubnetById(r.subnet).version

\* Interface.objects.filter(mac_address=mac)
InterfacesForMac(ifaces, mac) == { i \in ifaces : i.mac_address = mac }

\* Mutant: the lookup takes the DISCOVERED rows of either family.
DiscoveredFor_anyFamily(rows, ifaceIds, version) ==
    { r \in rows : /\ r.alloc_type = DISCOVERED
                   /\ r.interface_set \cap ifaceIds # {} }

\* The DISCOVERED rows of the given family linked to any of the interfaces.
DiscoveredFor(rows, ifaceIds, version) ==
    { r \in rows : /\ r.alloc_type = DISCOVERED
                   /\ RowFamily(r) = version
                   /\ r.interface_set \cap ifaceIds # {} }

IdsOf(ifaces) == { i.id : i \in ifaces }

MinId(rows) == CHOOSE r \in rows : \A q \in rows : r.id <= q.id

\* ---------------------------------------------------- update_lease, pure

ValidActions == { "commit", "release", "expiry" }

UnknownActionMessage(action) == "Unknown lease action: " \o action

\* Mutant: the message does not echo the ip.
NoSubnetMessage_noip(ip) == "No subnet exists for: "

NoSubnetMessage(ip) == "No subnet exists for: " \o IPText(ip)

\* Mutant: the message names the family of the resolved subnet.
FamilyMismatchMessage_subnet(ip_family, subnet) ==
    "Family for the subnet does not match. Expected: "
        \o FamilyName(subnet.version)

FamilyMismatchMessage(ip_family, subnet) ==
    "Family for the subnet does not match. Expected: " \o ip_family

\* Mutant: the family is checked for a commit only.
ValidationError_familyOnCommit(e) ==
    LET subnet == get_best_subnet_for_ip(e.ip)
    IN  IF e.action \notin ValidActions
        THEN UnknownActionMessage(e.action)
        ELSE IF subnet = NoSubnet
        THEN NoSubnetMessage(e.ip)
        ELSE IF e.action = "commit"
                  /\ e.ip_family # FamilyName(subnet.version)
        THEN FamilyMismatchMessage(e.ip_family, subnet)
        ELSE None

\* Mutant: the subnet is looked up before the action is checked.
ValidationError_subnetFirst(e) ==
    LET subnet == get_best_subnet_for_ip(e.ip)
    IN  IF subnet = NoSubnet
        THEN NoSubnetMessage(e.ip)
        ELSE IF e.action \notin ValidActions
        THEN UnknownActionMessage(e.action)
        ELSE IF e.ip_family # FamilyName(subnet.version)
        THEN FamilyMismatchMessage(e.ip_family, subnet)
        ELSE None

\* The LeaseUpdateError the event raises, or None: the action is checked
\* first, then the subnet of the ip, then the family.
ValidationError(e) ==
    LET subnet == get_best_subnet_for_ip(e.ip)
    IN  IF e.action \notin ValidActions
        THEN UnknownActionMessage(e.action)
        ELSE IF subnet = NoSubnet
        THEN NoSubnetMessage(e.ip)
        ELSE IF e.ip_family # FamilyName(subnet.version)
        THEN FamilyMismatchMessage(e.ip_family, subnet)
        ELSE None

\* Mutant: any lease event vivifies an UnknownInterface.
CreatesUnknownInterface_always(action) == TRUE

\* Whether an UnknownInterface is created for a MAC no interface carries.
CreatesUnknownInterface(action) == action = "commit"

\* Mutant: the timestamps are left to the store's defaults.
CommittedRow_defaultTimes(id, e, subnet, ifaceIds) ==
    [id |-> id, alloc_type |-> DISCOVERED, ip |-> e.ip,
     subnet |-> subnet.id, lease_time |-> e.lease_time,
     created |-> 0, updated |-> 0,
     interface_set |-> ifaceIds]

\* Mutant: the row is linked to one of the interfaces of the MAC only.
CommittedRow_oneInterface(id, e, subnet, ifaceIds) ==
    [id |-> id, alloc_type |-> DISCOVERED, ip |-> e.ip,
     subnet |-> subnet.id, lease_time |-> e.lease_time,
     created |-> e.timestamp, updated |-> e.timestamp,
     interface_set |-> { CHOOSE i \in ifaceIds : \A j \in ifaceIds : i <= j }]

\* The row a commit writes: ip, subnet, lease_time and both timestamps are
\* the event's; the row's identity is kept when it exists.
CommittedRow(id, e, subnet, ifaceIds) ==
    [id |-> id, alloc_type |-> DISCOVERED, ip |-> e.ip,
     subnet |-> subnet.id, lease_time |-> e.lease_time,
     created |-> e.timestamp, updated |-> e.timestamp,
     interface_set |-> ifaceIds]

\* Mutant: the row of a release records the released ip.
ReleasedRow_keepsIp(id, e, subnet, ifaceIds) ==
    [id |-> id, alloc_type |-> DISCOVERED, ip |-> e.ip,
     subnet |-> subnet.id, lease_time |-> NullLease,
     created |-> e.timestamp, updated |-> e.timestamp,
     interface_set |-> ifaceIds]

\* The row a release or an expiry leaves when none existed.
ReleasedRow(id, e, subnet, ifaceIds) ==
    [id |-> id, alloc_type |-> DISCOVERED, ip |-> NoIP,
     subnet |-> subnet.id, lease_time |-> NullLease,
     created |-> e.timestamp, updated |-> e.timestamp,
     interface_set |-> ifaceIds]

\* A release or an expiry of an existing row: the ip is set to null, the
\* row, its subnet and its interfaces stay.
ClearLease(row) == [row EXCEPT !.ip = NoIP]

\* The row a lease event inserts when the lookup found none.
NewRow(id, e, subnet, ifaceIds) ==
    IF e.action = "commit"
    THEN CommittedRow(id, e, subnet, ifaceIds)
    ELSE ReleasedRow(id, e, subnet, ifaceIds)

\* Mutant: a row is inserted whether or not one exists.
UpsertDiscovered_insert(d, e, subnet, ifaceIds, existing) ==
    [d EXCEPT !.addresses = @ \cup { NewRow(d.nextSip, e, subnet, ifaceIds) },
              !.nextSip = @ + 1]

\* Mutant: the existing rows are deleted and a new row is inserted.
UpsertDiscovered_recreate(d, e, subnet, ifaceIds, existing) ==
    [d EXCEPT !.addresses = (@ \ existing)
                              \cup { NewRow(d.nextSip, e, subnet, ifaceIds) },
              !.nextSip = @ + 1]

\* Mutant: an event older than the row it meets is ignored.
UpsertDiscovered_newerOnly(d, e, subnet, ifaceIds, existing) ==
    IF existing = {}
    THEN [d EXCEPT
            !.addresses = @ \cup { NewRow(d.nextSip, e, subnet, ifaceIds) },
            !.nextSip = @ + 1]
    ELSE LET old == MinId(existing)
             new == IF e.action = "commit"
                    THEN CommittedRow(old.id, e, subnet,
                                      old.interface_set \cup ifaceIds)
                    ELSE ClearLease(old)
         IN  IF e.timestamp < old.updated
             THEN d
             ELSE [d EXCEPT !.addresses = (@ \ existing) \cup { new }]

\* The create-or-update of the one DISCOVERED row of (interfaces, family),
\* given the rows `existing` the lookup found.
UpsertDiscovered(d, e, subnet, ifaceIds, existing) ==
    IF existing = {}
    THEN [d EXCEPT
            !.addresses = @ \cup { NewRow(d.nextSip, e, subnet, ifaceIds) },
            !.nextSip = @ + 1]
    ELSE LET old == MinId(existing)
             new == IF e.action = "commit"
                    THEN CommittedRow(old.id, e, subnet,
                                      old.interface_set \cup ifaceIds)
                    ELSE ClearLease(old)
         IN  [d EXCEPT !.addresses = (@ \ existing) \cup { new }]

\* The write half of update_lease, given what the lookups found: `found`,
\* the interfaces carrying the MAC, and `existing`, their DISCOVERED rows of
\* the subnet's family.
ApplyLease(d, e, subnet, found, existing) ==
    IF found = {}
    THEN IF CreatesUnknownInterface(e.action)
         THEN LET unknown == [id |-> d.nextIface, type |-> "unknown",
                              mac_address |-> e.mac, vlan |-> subnet.vlan]
                  d1 == [d EXCEPT !.interfaces = @ \cup { unknown },
                                  !.nextIface = @ + 1]
              IN  UpsertDiscovered(d1, e, subnet, { unknown.id }, existing)
         ELSE d
    ELSE UpsertDiscovered(d, e, subnet, { i.id : i \in found }, existing)

\* Mutant: the existence check is left out.
LookupExisting_none(d, e, subnet) == {}

\* The DISCOVERED rows of the subnet's family on the interfaces of the MAC.
LookupExisting(d, e, subnet) ==
    DiscoveredFor(d.addresses,
                  { i.id : i \in InterfacesForMac(d.interfaces, e.mac) },
                  subnet.version)

\* Mutant: the interface and the row are written before the family of the
\* event is checked, and the error leaves them there.
update_lease_writesFirst(d, e) ==
    LET err == ValidationError(e)
        subnet == get_best_subnet_for_ip(e.ip)
    IN  IF err # None
        THEN [db |-> IF e.action \in ValidActions /\ subnet # NoSubnet
                     THEN ApplyLease(d, e, subnet,
                                     InterfacesForMac(d.interfaces, e.mac),
                                     LookupExisting(d, e, subnet))
                     ELSE d,
              result |-> err]
        ELSE [db |-> ApplyLease(d, e, subnet,
                                InterfacesForMac(d.interfaces, e.mac),
                                LookupExisting(d, e, subnet)),
              result |-> "ok"]

\* update_lease(**e) on the store d: the store it leaves and its outcome.
update_lease(d, e) ==
    LET err == ValidationError(e)
        subnet == get_best_subnet_for_ip(e.ip)
    IN  IF err # None
        THEN [db |-> d, result |-> err]
        ELSE [db |-> ApplyLease(d, e, subnet,
                                InterfacesForMac(d.interfaces, e.mac),
                                LookupExisting(d, e, subnet)),
              result |-> "ok"]

\* --------------------------------------------------------------- actions

LeaseInit ==
    /\ interfaces \in { { BootInterface }, { BootInterface, BondInterface } }
    /\ addresses = InitAddresses
    /\ nextIface = 3
    /\ nextSip = 2
    /\ lastEvent = NoEvent
    /\ result = None
    /\ replay = FALSE
    /\ nEvents = 0

\* One call of update_lease, in its own transaction.
UpdateLease ==
    /\ nEvents < MaxEvents
    /\ \E e \in Events :
         LET r == update_lease(db, e)
         IN  /\ interfaces' = r.db.interfaces
             /\ addresses' = r.db.addresses
             /\ nextIface' = r.db.nextIface
             /\ nextSip' = r.db.nextSip
             /\ lastEvent' = e
             /\ result' = r.result
             /\ replay' = (e = lastEvent)
    /\ nEvents' = nEvents + 1
    /\ UNCHANGED <<concVars, zoneVars>>

\* ------------------------------------- concurrent lease reconciliation

Procs == 1..NumProcs

NoTuple == <<0, None, 0>>

\* The (subnet, MAC, address family) an event is about.
TupleOf(e) ==
    LET subnet == get_best_subnet_for_ip(e.ip)
    IN  <<subnet.id, e.mac, subnet.version>>

\* The valid events for the tuple k.
TupleEvents(k) ==
    { e \in Events : ValidationError(e) = None /\ TupleOf(e) = k }

Tuples == { TupleOf(e) : e \in { x \in Events : ValidationError(x) = None } }

\* Mutant: no lock is taken; the existence check and the insert of two
\* transactions interleave.
LockFree_unserialized(held, k) == TRUE

\* Whether a transaction may lock the tuple k.
LockFree(held, k) == k \notin held

ConcIdle ==
    /\ tuple = NoTuple
    /\ pc = [p \in Procs |-> "idle"]
    /\ pevent = [p \in Procs |-> NoEvent]
    /\ pfound = [p \in Procs |-> {}]
    /\ pexisting = [p \in Procs |-> {}]
    /\ locks = {}
    /\ started = 0

\* A process takes up a lease event for the tuple.
Receive(p) ==
    /\ pc[p] = "idle"
    /\ started < MaxConcEvents
    /\ \E e \in TupleEvents(tuple) : pevent' = [pevent EXCEPT ![p] = e]
    /\ pc' = [pc EXCEPT ![p] = "wait"]
    /\ started' = started + 1
    /\ UNCHANGED <<leaseVars, tuple, pfound, pexisting, locks>>
    /\ UNCHANGED zoneVars

\* Its transaction locks the tuple.
Acquire(p) ==
    /\ pc[p] = "wait"
    /\ LockFree(locks, TupleOf(pevent[p]))
    /\ locks' = locks \cup { TupleOf(pevent[p]) }
    /\ pc' = [pc EXCEPT ![p] = "read"]
    /\ UNCHANGED <<leaseVars, tuple, pevent, pfound, pexisting, started>>
    /\ UNCHANGED zoneVars

\* It looks up the interfaces of the MAC and their DISCOVERED rows.
Lookup(p) ==
    /\ pc[p] = "read"
    /\ pfound' = [pfound EXCEPT
                    ![p] = InterfacesForMac(interfaces, pevent[p].mac)]
    /\ pexisting' = [pexisting EXCEPT
                       ![p] = LookupExisting(db, pevent[p],
                                  get_best_subnet_for_ip(pevent[p].ip))]
    /\ pc' = [pc EXCEPT ![p] = "write"]
    /\ UNCHANGED <<leaseVars, tuple, pevent, locks, started>>
    /\ UNCHANGED zoneVars

\* It writes what the event asks for, given what it found.
Write(p) ==
    /\ pc[p] = "write"
    /\ LET r == ApplyLease(db, pevent[p],
                           get_best_subnet_for_ip(pevent[p].ip),
                           pfound[p], pexisting[p])
       IN  /\ interfaces' = r.interfaces
           /\ addresses' = r.addresses
           /\ nextIface' = r.nextIface
           /\ nextSip' = r.nextSip
    /\ pc' = [pc EXCEPT ![p] = "unlock"]
    /\ UNCHANGED <<lastEvent, result, replay, nEvents, tuple, pevent, pfound,
                   pexisting, locks, started>>
    /\ UNCHANGED zoneVars

\* The transaction commits and gives up its lock.
Commit(p) ==
    /\ pc[p] = "unlock"
    /\ locks' = locks \ { TupleOf(pevent[p]) }
    /\ pc' = [pc EXCEPT ![p] = "idle"]
    /\ pevent' = [pevent EXCEPT ![p] = NoEvent]
    /\ pfound' = [pfound EXCEPT ![p] = {}]
    /\ pexisting' = [pexisting EXCEPT ![p] = {}]
    /\ UNCHANGED <<leaseVars, tuple, started>>
    /\ UNCHANGED zoneVars

ConcNext ==
    \E p \in Procs :
        Receive(p) \/ Acquire(p) \/ Lookup(p) \/ Write(p) \/ Commit(p)

\* ------------------------------------------------------ zone generator

\* serial=None and an absent serial_generator.
NoSerial == -1

NodeGroups == { 1, 2, 3 }

\* nodegroup.name, the DNS domain: the node groups 1 and 2 share a domain.
NodeGroupName == <<"lab", "lab", "dev">>

\* The domain names, in the order sorted() puts them.
DomainOrder == <<"dev", "lab">>

\* nodegroup.get_managed_interfaces(): network, ip_range_low, ip_range_high.
ManagedInterfaces ==
    << << [network |-> 2, ip_range_low |-> 21, ip_range_high |-> 29] >>,
       << [network |-> 1, ip_range_low |-> 11, ip_range_high |-> 19],
          [network |-> 3, ip_range_low |-> 31, ip_range_high |-> 39] >>,
       << [network |-> 4, ip_range_low |-> 41, ip_range_high |-> 49] >> >>

\* What StaticIPAddress.objects.get_hostname_ip_mapping answers: either the
\* node groups of a domain name different hosts, or groups 1 and 2 both
\* name alpha-host.
HostMappings ==
    { << [h \in { "alpha-host" } |-> "10.0.0.5"],
         [h \in { "beta-host" } |-> "10.0.0.6"],
         [h \in { "gamma-host" } |-> "10.0.4.5"] >>,
      << [h \in { "alpha-host" } |-> "10.0.0.5"],
         [h \in { "alpha-host", "beta-host" } |->
            IF h = "alpha-host" THEN "10.0.0.7" ELSE "10.0.0.6"],
         [h \in { "gamma-host" } |-> "10.0.4.5"] >> }

\* Config.objects.get_config("windows_kms_host")
KmsHosts == { None, "", "kms.example.com" }

\* What get_maas_facing_server_address answers: an address, or socket.error.
ServerAddresses == { "socket.error", "127.0.0.1", "192.168.0.1" }

\* Mutant: a loopback address is refused like a failed resolution.
get_dns_server_address_noLoopback(answer) ==
    IF answer \in { "socket.error", "127.0.0.1" }
    THEN [err |-> "DNSException", ip |-> None]
    ELSE [err |-> None, ip |-> answer]

\* Mutant: the socket error is swallowed.
get_dns_server_address_swallow(answer) == [err |-> None, ip |-> answer]

\* get_dns_server_address: DNSException on socket.error, else the address.
get_dns_server_address(answer) ==
    IF answer = "socket.error"
    THEN [err |-> "DNSException", ip |-> None]
    ELSE [err |-> None, ip |-> answer]

\* IPAddress(ip).is_loopback()
IsLoopback(ip) == ip = "127.0.0.1"

\* The nodegroups argument of ZoneGenerator: one node group, or a
\* collection of them.
ZoneInputs ==
    { [single |-> TRUE, items |-> { g }] : g \in { 1 } }
      \cup { [single |-> FALSE, items |-> S] :
               S \in { {}, { 2 }, { 1, 2 }, { 1, 3 }, { 1, 2, 3 } } }

\* sequence(thing): a lone node group becomes a list of one, a collection
\* keeps its elements.
sequence(thing) == thing.items

\* Mutant: the generator hands out the same serial again.
serial_generator_constant(calls) == 100

\* serial_generator(): a fresh serial number on every call.
serial_generator(calls) == 100 + calls

\* Mutant: __iter__ goes on without the assertion.
SerialAsserted_skipped(ser, hasGen) == TRUE

\* The assertion of __iter__: not (serial is None and serial_generator is
\* None).
SerialAsserted(ser, hasGen) == ~ (ser = NoSerial /\ ~ hasGen)

\* Mutant: each read sees the store as it is at that moment.
get_hostname_ip_mapping_live(g, snap, live) == live[g]

\* get_hostname_ip_mapping(nodegroup): the mapping of the node group as the
\* transaction of the pass sees it.
get_hostname_ip_mapping(g, snap, live) == snap[g]

\* Mutant: every node group passes the filter.
filter_dns_managed_all(groups) == groups

\* ZoneGenerator._filter_dns_managed
filter_dns_managed(groups) == { g \in groups : managesDns[g] }

\* Mutant: the forward node groups are looked for among the generator's
\* node groups only.
get_forward_nodegroups_ofInput(domains) ==
    filter_dns_managed({ g \in zgNodegroups : NodeGroupName[g] \in domains })

\* ZoneGenerator._get_forward_nodegroups: the DNS-managed node groups of
\* the store whose name is one of `domains`.
get_forward_nodegroups(domains) ==
    filter_dns_managed({ g \in NodeGroups : NodeGroupName[g] \in domains })

\* ZoneGenerator._get_reverse_nodegroups
get_reverse_nodegroups(groups) == filter_dns_managed(groups)

\* ZoneGenerator._get_srv_mappings, once consumed.
get_srv_mappings(host) ==
    IF host = None \/ host = ""
    THEN {}
    ELSE { [service |-> "_vlmcs._tcp", port |-> 1688, target |-> host,
            priority |-> 0, weight |-> 0] }

\* lazydict.__getitem__: the cached value, or the factory's, which is saved.
lazy_get(cache, key, fresh) == IF key \in DOMAIN cache THEN cache[key] ELSE fresh

lazy_put(cache, key, fresh) ==
    IF key \in DOMAIN cache
    THEN cache
    ELSE [k \in DOMAIN cache \cup { key } |->
            IF k = key THEN fresh ELSE cache[k]]

\* get_network(nodegroup) of _get_networks
get_network(g) ==
    [i \in DOMAIN ManagedInterfaces[g] |->
        [network |-> ManagedInterfaces[g][i].network,
         range |-> <<ManagedInterfaces[g][i].ip_range_low,
                     ManagedInterfaces[g][i].ip_range_high>>]]

Position(seq, x) == CHOOSE i \in DOMAIN seq : seq[i] = x

DomainLeq(a, b) == Position(DomainOrder, a) <= Position(DomainOrder, b)

\* The sequences that list every element of `groups` once.
Orders(groups) ==
    { f \in [1..Cardinality(groups) -> groups] :
        \A i, j \in DOMAIN f : i # j => f[i] # f[j] }

\* Iterating a set of node groups: the set's own order, which neither the
\* domains nor the networks of the node groups decide.
IterationOrder(groups) ==
    CHOOSE f \in Orders(groups) :
        \A i, j \in DOMAIN f :
            i < j => Position(setOrder, f[i]) < Position(setOrder, f[j])

\* sorted(nodegroups, key=get_domain): by domain, and, sorted() being
\* stable, in iteration order within a domain.
SortedByDomain(groups) ==
    LET it == IterationOrder(groups)
    IN  CHOOSE f \in Orders(groups) :
            \A i, j \in DOMAIN f :
                i < j =>
                    \/ /\ DomainLeq(NodeGroupName[f[i]], NodeGroupName[f[j]])
                       /\ NodeGroupName[f[i]] # NodeGroupName[f[j]]
                    \/ /\ NodeGroupName[f[i]] = NodeGroupName[f[j]]
                       /\ Position(it, f[i]) < Position(it, f[j])

\* Comparison of two network-details lists, element by element.
DetailsLess(a, b) ==
    \E i \in 1..Len(b) :
        /\ \A k \in 1..(i - 1) : k <= Len(a) /\ a[k] = b[k]
        /\ \/ i > Len(a)
           \/ /\ i <= Len(a)
              /\ \/ a[i].network < b[i].network
                 \/ /\ a[i].network = b[i].network
                    /\ \/ a[i].range[1] < b[i].range[1]
                       \/ /\ a[i].range[1] = b[i].range[1]
                          /\ a[i].range[2] < b[i].range[2]

\* networks.get(nodegroup) of g sorts before that of h: dict.get does not
\* call __missing__, so a node group that is not cached yet has the key
\* None, which sorts before every list and equal to None.
KeyLess(cache, g, h) ==
    /\ h \in DOMAIN cache
    /\ \/ g \notin DOMAIN cache
       \/ DetailsLess(cache[g], cache[h])

\* sorted(nodegroups, key=networks.get), stable.
SortedByNetworks(groups, cache) ==
    LET it == IterationOrder(groups)
    IN  CHOOSE f \in Orders(groups) :
            \A i, j \in DOMAIN f :
                i < j =>
                    \/ KeyLess(cache, f[i], f[j])
                    \/ /\ ~ KeyLess(cache, f[j], f[i])
                       /\ Position(it, f[i]) < Position(it, f[j])

\* {hostname: ip for nodegroup in nodegroups for hostname, ip in ...}: a
\* later node group's entry replaces an earlier one's.
RECURSIVE MergeMappings(_, _)
MergeMappings(groups, cache) ==
    IF groups = <<>>
    THEN <<>>
    ELSE LET before == MergeMappings(SubSeq(groups, 1, Len(groups) - 1), cache)
             last == cache[groups[Len(groups)]]
         IN  [h \in DOMAIN before \cup DOMAIN last |->
                IF h \in DOMAIN last THEN last[h] ELSE before[h]]

RECURSIVE FillMappings(_, _, _)
\* mappings[nodegroup] for each of `groups`, in turn.
FillMappings(groups, cache, store) ==
    IF groups = <<>>
    THEN cache
    ELSE FillMappings(Tail(groups),
                      lazy_put(cache, Head(groups), store[Head(groups)]),
                      store)

RECURSIVE DynamicRanges(_)
\* interface.get_dynamic_ip_range() of every managed interface of `groups`.
DynamicRanges(groups) ==
    IF groups = <<>>
    THEN <<>>
    ELSE [i \in DOMAIN ManagedInterfaces[Head(groups)] |->
            <<ManagedInterfaces[Head(groups)][i].ip_range_low,
              ManagedInterfaces[Head(groups)][i].ip_range_high>>]
         \o DynamicRanges(Tail(groups))

DNSForwardZoneConfig(domain, ser, dns_ip, mapping, srv_mapping, ranges) ==
    [kind |-> "forward", domain |-> domain, serial |-> ser,
     dns_ip |-> dns_ip, mapping |-> mapping, srv_mapping |-> srv_mapping,
     dynamic_ranges |-> ranges, network |-> 0]

\* Mutant: the reverse zones are numbered apart from the forward zones.
DNSReverseZoneConfig_ownSerial(domain, ser, mapping, network, ranges) ==
    [kind |-> "reverse", domain |-> domain, serial |-> ser + 1,
     dns_ip |-> None, mapping |-> mapping, srv_mapping |-> {},
     dynamic_ranges |-> ranges, network |-> network]

DNSReverseZoneConfig(domain, ser, mapping, network, ranges) ==
    [kind |-> "reverse", domain |-> domain, serial |-> ser,
     dns_ip |-> None, mapping |-> mapping, srv_mapping |-> {},
     dynamic_ranges |-> ranges, network |-> network]

\* Mutant: the node groups are not collated by domain.
DomainRun_single(order) == IF Len(order) <= 1 THEN order ELSE <<order[1]>>

\* The leading node groups of `order` that share the first one's domain.
RECURSIVE DomainRun(_)
DomainRun(order) ==
    IF Len(order) <= 1
    THEN order
    ELSE IF NodeGroupName[order[2]] = NodeGroupName[order[1]]
    THEN <<order[1]>> \o DomainRun(Tail(order))
    ELSE <<order[1]>>

ZeroQueries == [g \in NodeGroups |-> 0]

ZoneIdle ==
    /\ genCalls = 0
    /\ zpc = "idle"
    /\ serial = NoSerial
    /\ fwdRest = <<>>
    /\ revGroups = {}
    /\ revRest = <<>>
    /\ revIdx = 1
    /\ mappings = <<>>
    /\ networks = <<>>
    /\ srvFresh = FALSE
    /\ dnsIp = None
    /\ dnsCalls = 0
    /\ warnings = 0
    /\ mapQueries = ZeroQueries
    /\ ifaceQueries = ZeroQueries
    /\ out = <<>>
    /\ zerr = None
    /\ passes = <<>>
    /\ ends = <<>>
    /\ storeQueries = 0
    /\ dnsAnswer = None
    /\ snapshot = <<>>
    /\ storeHistory = <<>>
    /\ builtAt = <<>>

\* No zone generator: the state of the zone variables while lease events
\* alone are applied.
ZoneAbsent ==
    /\ managesDns = [g \in NodeGroups |-> FALSE]
    /\ setOrder = <<1, 2, 3>>
    /\ hostmap = <<>>
    /\ kmsHost = None
    /\ zgNodegroups = {}
    /\ zgSerial = NoSerial
    /\ zgHasGen = FALSE
    /\ ZoneIdle

\* ZoneGenerator(nodegroups, serial, serial_generator) over a store.
ZoneInit ==
    /\ managesDns \in [NodeGroups -> BOOLEAN]
    /\ setOrder \in Orders(NodeGroups)
    /\ hostmap \in HostMappings
    /\ kmsHost \in KmsHosts
    /\ \E thing \in ZoneInputs : zgNodegroups = sequence(thing)
    /\ zgSerial \in { NoSerial, 0, 42 }
    /\ zgHasGen \in BOOLEAN
    /\ ZoneIdle

\* __iter__ without a serial and without a serial_generator: the assertion.
IterAssertionFails ==
    /\ zpc \in { "idle", "raised" }
    /\ Len(passes) < MaxPasses
    /\ ~ SerialAsserted(zgSerial, zgHasGen)
    /\ zpc' = "raised"
    /\ zerr' = "AssertionError"
    /\ out' = <<>>
    /\ passes' = Append(passes, <<>>)
    /\ ends' = Append(ends, [err |-> "AssertionError", dns_ip |-> None])
    /\ UNCHANGED <<genCalls, serial, fwdRest, revGroups, revRest, revIdx,
                   mappings, networks, srvFresh, dnsIp, dnsCalls, warnings,
                   mapQueries, ifaceQueries, storeQueries, dnsAnswer,
                   snapshot, storeHistory, builtAt>>
    /\ UNCHANGED <<leaseVars, concVars, zoneStore>>

\* __iter__: the node groups of both passes, fresh lazydicts, a fresh
\* srv_mappings generator, and the serial: self.serial or
\* self.serial_generator().
Iter ==
    /\ zpc \in { "idle", "raised" }
    /\ Len(passes) < MaxPasses
    /\ SerialAsserted(zgSerial, zgHasGen)
    /\ storeQueries' = 1
    /\ dnsAnswer' = None
    /\ snapshot' = hostmap
    /\ storeHistory' = <<hostmap>>
    /\ builtAt' = <<>>
    /\ revGroups' = get_reverse_nodegroups(zgNodegroups)
    /\ mappings' = <<>>
    /\ networks' = <<>>
    /\ srvFresh' = TRUE
    /\ dnsIp' = None
    /\ dnsCalls' = 0
    /\ warnings' = 0
    /\ mapQueries' = ZeroQueries
    /\ ifaceQueries' = ZeroQueries
    /\ out' = <<>>
    /\ revRest' = <<>>
    /\ revIdx' = 1
    /\ IF zgSerial # NoSerial /\ zgSerial # 0
       THEN /\ serial' = zgSerial
            /\ zpc' = "forward_start"
            /\ zerr' = None
            /\ UNCHANGED <<genCalls, passes, ends>>
       ELSE IF zgHasGen
       THEN /\ serial' = serial_generator(genCalls)
            /\ genCalls' = genCalls + 1
            /\ zpc' = "forward_start"
            /\ zerr' = None
            /\ UNCHANGED <<passes, ends>>
       ELSE /\ zpc' = "raised"
            /\ zerr' = "TypeError"
            /\ passes' = Append(passes, <<>>)
            /\ ends' = Append(ends, [err |-> "TypeError", dns_ip |-> None])
            /\ UNCHANGED <<genCalls, serial>>
    /\ fwdRest' = SortedByDomain(get_forward_nodegroups(
                       { NodeGroupName[g] : g \in zgNodegroups }))
    /\ UNCHANGED <<leaseVars, concVars, zoneStore>>

\* Mutant: the server address is resolved only when there is a forward
\* zone to build.
ForwardStart_whenNeeded ==
    /\ zpc = "forward_start"
    /\ \E answer \in ServerAddresses :
         LET got == get_dns_server_address(answer)
         IN  IF fwdRest = <<>>
             THEN /\ zpc' = "forward"
                  /\ UNCHANGED <<dnsCalls, dnsAnswer, dnsIp, warnings, zerr,
                                 passes, ends>>
             ELSE /\ dnsCalls' = dnsCalls + 1
                  /\ dnsAnswer' = answer
                  /\ IF got.err # None
                     THEN /\ zpc' = "raised"
                          /\ zerr' = got.err
                          /\ passes' = Append(passes, out)
                          /\ ends' = Append(ends, [err |-> got.err,
                                                   dns_ip |-> None])
                          /\ UNCHANGED <<dnsIp, warnings>>
                     ELSE /\ zpc' = "forward"
                          /\ dnsIp' = got.ip
                          /\ warnings' = IF IsLoopback(got.ip)
                                         THEN warnings + 1 ELSE warnings
                          /\ UNCHANGED <<zerr, passes, ends>>
    /\ UNCHANGED <<genCalls, serial, fwdRest, revGroups, revRest, revIdx,
                   mappings, networks, srvFresh, mapQueries, ifaceQueries,
                   out, storeQueries, snapshot, storeHistory, builtAt>>
    /\ UNCHANGED <<leaseVars, concVars, zoneStore>>

\* The first next() enters _gen_forward_zones: get_dns_server_address().
ForwardStart ==
    /\ zpc = "forward_start"
    /\ dnsCalls' = dnsCalls + 1
    /\ \E answer \in ServerAddresses :
         LET got == get_dns_server_address(answer)
         IN  /\ dnsAnswer' = answer
             /\ IF got.err # None
                THEN /\ zpc' = "raised"
                     /\ zerr' = got.err
                     /\ passes' = Append(passes, out)
                     /\ ends' = Append(ends, [err |-> got.err,
                                              dns_ip |-> None])
                     /\ UNCHANGED <<dnsIp, warnings>>
                ELSE /\ zpc' = "forward"
                     /\ dnsIp' = got.ip
                     /\ warnings' = IF IsLoopback(got.ip)
                                    THEN warnings + 1 ELSE warnings
                     /\ UNCHANGED <<zerr, passes, ends>>
    /\ UNCHANGED <<genCalls, serial, fwdRest, revGroups, revRest, revIdx,
                   mappings, networks, srvFresh, mapQueries, ifaceQueries,
                   out, storeQueries, snapshot, storeHistory, builtAt>>
    /\ UNCHANGED <<leaseVars, concVars, zoneStore>>

\* _gen_forward_zones yields the zone of the next domain.
YieldForward ==
    /\ zpc = "forward"
    /\ fwdRest # <<>>
    /\ LET run == DomainRun(fwdRest)
           members == { run[i] : i \in DOMAIN run }
           filled == FillMappings(run, mappings,
                         [g \in NodeGroups |->
                            get_hostname_ip_mapping(g, snapshot, hostmap)])
       IN  /\ mappings' = filled
           /\ mapQueries' = [g \in NodeGroups |->
                  IF g \in members /\ g \notin DOMAIN mappings
                  THEN mapQueries[g] + 1 ELSE mapQueries[g]]
           /\ ifaceQueries' = [g \in NodeGroups |->
                  IF g \in members
                  THEN ifaceQueries[g] + 1 ELSE ifaceQueries[g]]
           /\ out' = Append(out,
                  DNSForwardZoneConfig(
                      NodeGroupName[run[1]], serial, dnsIp,
                      MergeMappings(run, filled),
                      IF srvFresh THEN get_srv_mappings(kmsHost) ELSE {},
                      DynamicRanges(run)))
           /\ fwdRest' = SubSeq(fwdRest, Len(run) + 1, Len(fwdRest))
    /\ srvFresh' = FALSE
    /\ UNCHANGED <<genCalls, zpc, serial, revGroups, revRest, revIdx,
                   networks, dnsIp, dnsCalls, warnings, zerr, passes>>
    /\ builtAt' = Append(builtAt, Len(storeHistory))
    /\ UNCHANGED <<ends, storeQueries, dnsAnswer, snapshot, storeHistory>>
    /\ UNCHANGED <<leaseVars, concVars, zoneStore>>

\* The forward generator is exhausted; _gen_reverse_zones sorts its node
\* groups by networks.get.
ReverseStart ==
    /\ zpc = "forward"
    /\ fwdRest = <<>>
    /\ revRest' = SortedByNetworks(revGroups, networks)
    /\ revIdx' = 1
    /\ zpc' = "reverse"
    /\ UNCHANGED <<genCalls, serial, fwdRest, revGroups, mappings, networks,
                   srvFresh, dnsIp, dnsCalls, warnings, mapQueries,
                   ifaceQueries, out, zerr, passes>>
    /\ UNCHANGED <<ends, storeQueries, dnsAnswer, snapshot, storeHistory,
                   builtAt>>
    /\ UNCHANGED <<leaseVars, concVars, zoneStore>>

\* _gen_reverse_zones yields the zone of the next network of a node group.
YieldReverse ==
    /\ zpc = "reverse"
    /\ revRest # <<>>
    /\ LET g == Head(revRest)
           nets == lazy_get(networks, g, get_network(g))
           fresh == get_hostname_ip_mapping(g, snapshot, hostmap)
           mapping == lazy_get(mappings, g, fresh)
       IN  /\ revIdx <= Len(nets)
           /\ networks' = lazy_put(networks, g, get_network(g))
           /\ mappings' = lazy_put(mappings, g, fresh)
           /\ ifaceQueries' = [ifaceQueries EXCEPT
                  ![g] = IF g \in DOMAIN networks THEN @ ELSE @ + 1]
           /\ mapQueries' = [mapQueries EXCEPT
                  ![g] = IF g \in DOMAIN mappings THEN @ ELSE @ + 1]
           /\ out' = Append(out,
                  DNSReverseZoneConfig(
                      NodeGroupName[g], serial, mapping,
                      nets[revIdx].network, <<nets[revIdx].range>>))
    /\ revIdx' = revIdx + 1
    /\ UNCHANGED <<genCalls, zpc, serial, fwdRest, revGroups, revRest,
                   srvFresh, dnsIp, dnsCalls, warnings, zerr, passes>>
    /\ builtAt' = Append(builtAt, Len(storeHistory))
    /\ UNCHANGED <<ends, storeQueries, dnsAnswer, snapshot, storeHistory>>
    /\ UNCHANGED <<leaseVars, concVars, zoneStore>>

\* The networks of a node group are done: on to the next node group.
NextReverseGroup ==
    /\ zpc = "reverse"
    /\ revRest # <<>>
    /\ LET g == Head(revRest)
           nets == lazy_get(networks, g, get_network(g))
       IN  /\ revIdx > Len(nets)
           /\ networks' = lazy_put(networks, g, get_network(g))
           /\ ifaceQueries' = [ifaceQueries EXCEPT
                  ![g] = IF g \in DOMAIN networks THEN @ ELSE @ + 1]
    /\ revRest' = Tail(revRest)
    /\ revIdx' = 1
    /\ UNCHANGED <<genCalls, zpc, serial, fwdRest, revGroups, mappings,
                   srvFresh, dnsIp, dnsCalls, warnings, mapQueries, out,
                   zerr, passes>>
    /\ UNCHANGED <<ends, storeQueries, dnsAnswer, snapshot, storeHistory,
                   builtAt>>
    /\ UNCHANGED <<leaseVars, concVars, zoneStore>>

\* StopIteration: the pass is complete.
Finish ==
    /\ zpc = "reverse"
    /\ revRest = <<>>
    /\ zpc' = "idle"
    /\ passes' = Append(passes, out)
    /\ ends' = Append(ends, [err |-> None, dns_ip |-> dnsIp])
    /\ UNCHANGED <<genCalls, serial, fwdRest, revGroups, revRest, revIdx,
                   mappings, networks, srvFresh, dnsIp, dnsCalls, warnings,
                   mapQueries, ifaceQueries, out, zerr, storeQueries,
                   dnsAnswer, snapshot, storeHistory, builtAt>>
    /\ UNCHANGED <<leaseVars, concVars, zoneStore>>

ZoneNext ==
    \/ IterAssertionFails
    \/ Iter
    \/ ForwardStart
    \/ YieldForward
    \/ ReverseStart
    \/ YieldReverse
    \/ NextReverseGroup
    \/ Finish

\* The host mapping entry a committed lease adds for a node of each group.
LeasedHosts ==
    << [h \in { "delta-host" } |-> "10.0.2.9"],
       [h \in { "epsilon-host" } |-> "10.0.1.9"],
       [h \in { "zeta-host" } |-> "10.0.4.9"] >>

WithLease(mapping, g) ==
    [h \in DOMAIN mapping \cup DOMAIN LeasedHosts[g] |->
        IF h \in DOMAIN mapping THEN mapping[h] ELSE LeasedHosts[g][h]]

\* A lease event commits in a transaction of its own while the generator
\* is idle or between two of its zones: a node of group g gains an entry.
LeaseCommitted ==
    /\ Cardinality({ g \in NodeGroups :
                       DOMAIN LeasedHosts[g] \subseteq DOMAIN hostmap[g] })
         < MaxCommits
    /\ \E g \in NodeGroups :
         /\ ~ (DOMAIN LeasedHosts[g] \subseteq DOMAIN hostmap[g])
         /\ hostmap' = [hostmap EXCEPT ![g] = WithLease(@, g)]
    /\ storeHistory' = Append(storeHistory, hostmap')
    /\ UNCHANGED <<managesDns, setOrder, kmsHost, zgNodegroups, zgSerial,
                   zgHasGen>>
    /\ UNCHANGED <<genCalls, zpc, serial, fwdRest, revGroups, revRest, revIdx,
                   mappings, networks, srvFresh, dnsIp, dnsCalls, warnings,
                   mapQueries, ifaceQueries, out, zerr, passes, ends,
                   storeQueries, dnsAnswer, snapshot, builtAt>>
    /\ UNCHANGED <<leaseVars, concVars>>

SnapNext ==
    \/ IterAssertionFails
    \/ Iter
    \/ ForwardStart
    \/ YieldForward
    \/ ReverseStart
    \/ YieldReverse
    \/ NextReverseGroup
    \/ Finish
    \/ LeaseCommitted

\* The host mappings in which no two node groups name the same host.
DistinctHosts ==
    CHOOSE m \in HostMappings :
        \A g, h \in NodeGroups :
            g # h => DOMAIN m[g] \cap DOMAIN m[h] = {}

\* A generator over the three DNS-managed node groups, with lease events
\* arriving.
SnapSpecInit ==
    /\ LeaseInit
    /\ interfaces = { BootInterface }
    /\ ConcIdle
    /\ managesDns = [g \in NodeGroups |-> TRUE]
    /\ setOrder \in { <<1, 2, 3>>, <<3, 2, 1>> }
    /\ hostmap = DistinctHosts
    /\ kmsHost = None
    /\ zgNodegroups = NodeGroups
    /\ zgSerial \in { NoSerial, 42 }
    /\ zgHasGen = FALSE
    /\ ZoneIdle

SpecSnap == SnapSpecInit /\ [][SnapNext]_vars

ZoneSpecInit ==
    /\ LeaseInit
    /\ interfaces = { BootInterface }
    /\ ConcIdle
    /\ ZoneInit

SpecZone == ZoneSpecInit /\ [][ZoneNext]_vars

\* ------------------------------------------------------- specifications

ConcSpecInit ==
    /\ LeaseInit
    /\ tuple \in Tuples
    /\ pc = [p \in Procs |-> "idle"]
    /\ pevent = [p \in Procs |-> NoEvent]
    /\ pfound = [p \in Procs |-> {}]
    /\ pexisting = [p \in Procs |-> {}]
    /\ locks = {}
    /\ started = 0
    /\ ZoneAbsent

SpecConc == ConcSpecInit /\ [][ConcNext]_vars

Init == LeaseInit /\ ConcIdle /\ ZoneAbsent

Next == UpdateLease

Spec == Init /\ [][Next]_vars

\* --------------------------------------------------- zone generator claims

\* The zones of a sequence all carry one serial.
OneSerial(zones) ==
    \A i, j \in DOMAIN zones : zones[i].serial = zones[j].serial

\* C1: the zones one pass emits, forward and reverse, all carry the same
\* serial, be it the one supplied or the one serial_generator returned.
C1_OneSerialPerPass ==
    /\ OneSerial(out)
    /\ \A z \in DOMAIN out : out[z].serial = serial
    /\ \A p \in DOMAIN passes : OneSerial(passes[p])

\* A complete pass emitted forward and reverse zones numbered by
\* serial_generator.
C1_Witness ==
    /\ zpc = "idle"
    /\ zgSerial = NoSerial
    /\ Len(passes) >= 1
    /\ \E i, j \in DOMAIN out :
         /\ out[i].kind = "forward"
         /\ out[j].kind = "reverse"
         /\ out[i].serial = serial_generator(genCalls - 1)
    /\ Len(out) >= 3

\* C12: a ZoneGenerator built with neither a serial nor a serial_generator
\* exists unharmed until it is iterated; iterating it raises AssertionError
\* with no zone emitted, no store query made and no address resolved.
C12_NoSerialAssertion ==
    (zgSerial = NoSerial /\ ~ zgHasGen)
        => /\ zpc \in { "idle", "raised" }
           /\ Len(passes) = 0 => (zpc = "idle" /\ zerr = None)
           /\ Len(passes) > 0 => (zpc = "raised" /\ zerr = "AssertionError")
           /\ \A p \in DOMAIN ends : ends[p].err = "AssertionError"
           /\ out = <<>>
           /\ \A p \in DOMAIN passes : passes[p] = <<>>
           /\ storeQueries = 0
           /\ mapQueries = ZeroQueries
           /\ ifaceQueries = ZeroQueries
           /\ dnsCalls = 0
           /\ dnsAnswer = None
           /\ genCalls = 0

\* Such a generator, over DNS-managed node groups, was iterated twice.
C12_Witness ==
    /\ zgSerial = NoSerial
    /\ ~ zgHasGen
    /\ zerr = "AssertionError"
    /\ Len(passes) = 2
    /\ \E g \in zgNodegroups : managesDns[g]

\* The (hostname, ip) entries of a mapping.
Pairs(mapping) == { <<h, mapping[h]>> : h \in DOMAIN mapping }

\* The dynamic ranges of the managed interfaces of a node group.
RangesOf(g) ==
    { <<ManagedInterfaces[g][i].ip_range_low,
        ManagedInterfaces[g][i].ip_range_high>> :
          i \in DOMAIN ManagedInterfaces[g] }

NetworksOf(g) ==
    { ManagedInterfaces[g][i].network : i \in DOMAIN ManagedInterfaces[g] }

\* The zone holds something of node group g: an entry of its mapping, one
\* of its dynamic ranges, or one of its networks.
References(z, g) ==
    \/ Pairs(z.mapping) \cap Pairs(hostmap[g]) # {}
    \/ \E i \in DOMAIN z.dynamic_ranges : z.dynamic_ranges[i] \in RangesOf(g)
    \/ z.kind = "reverse" /\ z.network \in NetworksOf(g)

\* The zones yielded so far, in this pass and in the passes before it.
ZonesYielded ==
    { out[i] : i \in DOMAIN out }
        \cup UNION { { passes[p][i] : i \in DOMAIN passes[p] } :
                        p \in DOMAIN passes }

\* C13: no zone of any pass holds a mapping entry, a network or a dynamic
\* range of a node group whose manages_dns() is false, whether the node
\* group was given to the generator or only shares a domain with one given.
C13_UnmanagedNeverReferenced ==
    \A g \in NodeGroups :
        ~ managesDns[g] => \A z \in ZonesYielded : ~ References(z, g)

\* A complete pass over node groups 1 and 2 of one domain, the first not
\* DNS-managed, emitted the forward and the reverse zones of the second.
C13_Witness ==
    /\ zpc = "idle"
    /\ Len(passes) >= 1
    /\ 1 \in zgNodegroups
    /\ ~ managesDns[1]
    /\ managesDns[2]
    /\ \E i, j \in DOMAIN out :
         /\ out[i].kind = "forward"
         /\ out[j].kind = "reverse"
         /\ References(out[i], 2)
         /\ References(out[j], 2)

\* The DNS-managed node groups of the store that carry the domain name.
GroupsOfDomain(domain) ==
    { g \in NodeGroups : managesDns[g] /\ NodeGroupName[g] = domain }

\* C14: the mapping of every forward zone is the union of the mappings of
\* the DNS-managed node groups of its domain: each of their (hostname, ip)
\* entries is in it, also when two of them name the same host, and nothing
\* else is.
C14_ForwardMappingIsUnion ==
    \A z \in ZonesYielded :
        z.kind = "forward"
            => Pairs(z.mapping)
                 = UNION { Pairs(hostmap[g]) : g \in GroupsOfDomain(z.domain) }

\* C15: when the resolution of the server address fails the pass raises
\* DNSException with no zone emitted, forward or reverse: a failed pass
\* never leaves a partial zone set.
C15_ResolutionFailureEmitsNothing ==
    /\ dnsAnswer = "socket.error"
         => (zpc = "raised" /\ zerr = "DNSException" /\ out = <<>>)
    /\ \A p \in DOMAIN ends :
         ends[p].err = "DNSException" => passes[p] = <<>>

\* The resolution failed in a pass that had forward and reverse zones to
\* emit.
C15_Witness ==
    /\ zerr = "DNSException"
    /\ dnsAnswer = "socket.error"
    /\ fwdRest # <<>>
    /\ revGroups # {}
    /\ Len(passes) >= 1

\* C16: every forward zone of a pass, of the first domain and of every
\* later one, carries the one _vlmcs._tcp record of the configured KMS
\* host, or the empty set when the host is unset or empty; the forward
\* zones of a pass have equal SRV sets.
C16_SrvOnEveryForwardZone ==
    \A z \in ZonesYielded :
        z.kind = "forward"
            => z.srv_mapping
                 = IF kmsHost \in { None, "" }
                   THEN {}
                   ELSE { [service |-> "_vlmcs._tcp", port |-> 1688,
                           target |-> kmsHost, priority |-> 0,
                           weight |-> 0] }

\* The node group whose managed interface is on the network.
GroupOfNetwork(n) == CHOOSE g \in NodeGroups : n \in NetworksOf(g)

\* The reverse zones of the node group whose network details sort lower
\* come first.
SortedByDetails(zones) ==
    \A i, j \in DOMAIN zones :
        ( /\ i < j
          /\ zones[i].kind = "reverse"
          /\ zones[j].kind = "reverse" )
            => ~ DetailsLess(get_network(GroupOfNetwork(zones[j].network)),
                             get_network(GroupOfNetwork(zones[i].network)))

\* C17: the reverse zones of a pass are emitted in the order of the node
\* groups' network details, whatever the order in which the node groups
\* were supplied or are stored.
C17_ReverseSortedByNetworkDetails ==
    /\ SortedByDetails(out)
    /\ \A p \in DOMAIN passes : SortedByDetails(passes[p])

\* The domains of the forward-eligible node groups: the DNS-managed node
\* groups of the store named as one of the generator's node groups is.
ForwardDomains ==
    { NodeGroupName[g] :
        g \in { h \in NodeGroups :
                  /\ managesDns[h]
                  /\ \E i \in zgNodegroups :
                       NodeGroupName[i] = NodeGroupName[h] } }

\* The (node group, managed interface) pairs of the DNS-managed node groups
\* given to the generator.
ReversePairs ==
    { <<g, k>> \in NodeGroups \X (1..2) :
        g \in zgNodegroups /\ managesDns[g]
            /\ k \in DOMAIN ManagedInterfaces[g] }

\* One forward zone per domain and one reverse zone per pair, each reverse
\* zone with the mapping of its node group and the one range of its network.
OneZoneEach(zones) ==
    LET fwd == { i \in DOMAIN zones : zones[i].kind = "forward" }
        rev == { i \in DOMAIN zones : zones[i].kind = "reverse" }
    IN  /\ \A i \in fwd : zones[i].domain \in ForwardDomains
        /\ \A d \in ForwardDomains :
             Cardinality({ i \in fwd : zones[i].domain = d }) = 1
        /\ Cardinality(rev) = Cardinality(ReversePairs)
        /\ \A pair \in ReversePairs :
             LET iface == ManagedInterfaces[pair[1]][pair[2]]
             IN  Cardinality(
                     { i \in rev :
                         /\ zones[i].network = iface.network
                         /\ zones[i].domain = NodeGroupName[pair[1]]
                         /\ zones[i].mapping = hostmap[pair[1]]
                         /\ zones[i].dynamic_ranges
                              = << <<iface.ip_range_low,
                                     iface.ip_range_high>> >> }) = 1

\* C18: a pass that completes has emitted exactly one forward zone per
\* domain of the forward-eligible node groups and exactly one reverse zone
\* per (DNS-managed input node group, managed interface network), with that
\* node group's mapping and that network's dynamic range.
C18_OneZonePerDomainAndNetwork ==
    \A p \in DOMAIN passes : ends[p].err = None => OneZoneEach(passes[p])

\* A complete pass over two domains, one of them shared by two DNS-managed
\* node groups, emitted two forward zones and four reverse zones.
C18_Witness ==
    /\ zpc = "idle"
    /\ Len(passes) >= 1
    /\ ends[Len(ends)].err = None
    /\ managesDns[1] /\ managesDns[2]
    /\ Cardinality({ i \in DOMAIN out : out[i].kind = "forward" }) = 2
    /\ Cardinality({ i \in DOMAIN out : out[i].kind = "reverse" }) = 4

\* Two passes that both completed, with the same server address resolved.
Repeated(p, q) ==
    /\ p < q
    /\ ends[p].err = None
    /\ ends[q].err = None
    /\ ends[p].dns_ip = ends[q].dns_ip

\* The zones without their serial.
StripSerial(zones) == [i \in DOMAIN zones |-> [zones[i] EXCEPT !.serial = 0]]

\* C19, as claimed: a second iteration of the generator over the unchanged
\* store yields the sequence of the first, zone for zone, serial included,
\* with a serial supplied and with a serial_generator alone.
C19_SecondPassEqual ==
    \A p, q \in DOMAIN passes : Repeated(p, q) => passes[q] = passes[p]

\* C19, amended: a second iteration yields the zones of the first in the
\* same order; they carry the same serial when a non-zero serial was
\* supplied, and otherwise the serial of a further call of
\* serial_generator, which differs from the first's.
C19_SecondPassEqualUpToSerial ==
    \A p, q \in DOMAIN passes :
        Repeated(p, q)
            => /\ StripSerial(passes[q]) = StripSerial(passes[p])
               /\ (zgSerial # NoSerial /\ zgSerial # 0)
                    => passes[q] = passes[p]
               /\ (zgSerial = NoSerial \/ zgSerial = 0)
                    => \A i \in DOMAIN passes[p] :
                         passes[q][i].serial # passes[p][i].serial

\* The generator, given a serial_generator alone, was iterated to the end
\* twice and yielded forward and reverse zones both times.
C19_Witness ==
    /\ Len(passes) = 2
    /\ Repeated(1, 2)
    /\ zgSerial = NoSerial
    /\ Len(passes[1]) >= 3
    /\ Len(passes[2]) >= 3
    /\ passes[1][1].kind = "forward"

\* The mapping a zone has when it is built from the store h.
ReflectsStore(z, h) ==
    IF z.kind = "forward"
    THEN Pairs(z.mapping)
           = UNION { Pairs(h[g]) : g \in GroupsOfDomain(z.domain) }
    ELSE z.mapping = h[GroupOfNetwork(z.network)]

PassesBegun ==
    Len(passes) + IF zpc \in { "forward_start", "forward", "reverse" }
                  THEN 1 ELSE 0

\* C26: with a serial supplied, 0 included, every zone carries it and
\* serial_generator is never called, supplied or not; with a
\* serial_generator alone it is called exactly once in every pass.
C26_SuppliedSerialAlwaysUsed ==
    /\ zgSerial # NoSerial
         => /\ genCalls = 0
            /\ \A z \in ZonesYielded : z.serial = zgSerial
            /\ zerr \in { None, "DNSException" }
    /\ (zgSerial = NoSerial /\ zgHasGen) => genCalls = PassesBegun

\* C27: in one pass get_hostname_ip_mapping is called at most once for a
\* node group and get_managed_interfaces at most once for a node group,
\* also for a node group of both the forward and the reverse pass, whose
\* forward and reverse zones hold the same mapping entries.
C27_OneQueryPerGroupPerPass ==
    /\ \A g \in NodeGroups : mapQueries[g] <= 1
    /\ \A g \in NodeGroups : ifaceQueries[g] <= 1
    /\ \A i, j \in DOMAIN out :
         ( /\ out[i].kind = "forward"
           /\ out[j].kind = "reverse"
           /\ out[i].domain = out[j].domain )
             => DOMAIN out[j].mapping \subseteq DOMAIN out[i].mapping

\* The forward zones aggregate the DNS-managed node groups of the store by
\* name, the reverse zones are those of the DNS-managed node groups given.
AggregatesStore(zones) ==
    /\ { zones[i].domain : i \in { k \in DOMAIN zones :
                                      zones[k].kind = "forward" } }
         = { NodeGroupName[g] :
               g \in { h \in NodeGroups :
                         /\ managesDns[h]
                         /\ NodeGroupName[h]
                              \in { NodeGroupName[i] : i \in zgNodegroups } } }
    /\ \A i \in DOMAIN zones :
         zones[i].kind = "forward"
           => /\ DOMAIN zones[i].mapping
                   = UNION { DOMAIN hostmap[g] :
                               g \in GroupsOfDomain(zones[i].domain) }
              /\ { zones[i].dynamic_ranges[k] :
                      k \in DOMAIN zones[i].dynamic_ranges }
                   = UNION { RangesOf(g) :
                               g \in GroupsOfDomain(zones[i].domain) }
    /\ { zones[i].network : i \in { k \in DOMAIN zones :
                                       zones[k].kind = "reverse" } }
         = UNION { NetworksOf(g) :
                     g \in { h \in zgNodegroups : managesDns[h] } }

\* C28: a forward zone holds the hosts and ranges of every DNS-managed node
\* group of the store that carries its domain name, given to the generator
\* or not, and there is one for every name of a given node group that a
\* DNS-managed node group of the store carries; the reverse zones are those
\* of the DNS-managed node groups given to the generator.
C28_ForwardFromStoreReverseFromInput ==
    \A p \in DOMAIN passes : ends[p].err = None => AggregatesStore(passes[p])

\* The generator was given node group 1 alone, which is not DNS-managed;
\* node group 2 of the same name is: the pass emitted the forward zone of
\* the name, with the hosts of node group 2, and no reverse zone.
C28_Witness ==
    /\ zpc = "idle"
    /\ Len(passes) >= 1
    /\ zgNodegroups = { 1 }
    /\ ~ managesDns[1]
    /\ managesDns[2]
    /\ Len(out) = 1
    /\ out[1].kind = "forward"
    /\ out[1].domain = NodeGroupName[1]
    /\ References(out[1], 2)

\* No reverse zone comes before a forward zone.
ForwardThenReverse(zones) ==
    \A i, j \in DOMAIN zones :
        (zones[i].kind = "reverse" /\ zones[j].kind = "forward") => j < i

\* Every forward zone carries the address ip.
ForwardCarry(zones, ip) ==
    \A i \in DOMAIN zones : zones[i].kind = "forward" => zones[i].dns_ip = ip

\* C29: in a pass the forward zones come before the reverse zones; once the
\* pass has entered its generators the server address has been resolved
\* exactly once, whether or not there is a forward zone to build, and never
\* more than once; every forward zone of the pass carries the address that
\* resolution gave.
C29_ForwardFirstOneResolution ==
    /\ ForwardThenReverse(out)
    /\ \A p \in DOMAIN passes : ForwardThenReverse(passes[p])
    /\ dnsCalls <= 1
    /\ zpc \in { "forward", "reverse" } => dnsCalls = 1
    /\ (zpc = "idle" /\ Len(passes) > 0) => dnsCalls = 1
    /\ (zpc = "raised" /\ zerr = "DNSException") => dnsCalls = 1
    /\ zpc \in { "forward", "reverse", "idle" } => ForwardCarry(out, dnsIp)
    /\ \A p \in DOMAIN passes :
         ends[p].err = None => ForwardCarry(passes[p], ends[p].dns_ip)

\* A completed pass of two forward zones followed by reverse zones, the
\* server address resolved once.
C29_Witness ==
    /\ zpc = "idle"
    /\ Len(passes) > 0
    /\ Len(out) >= 4
    /\ out[1].kind = "forward"
    /\ out[2].kind = "forward"
    /\ out[1].dns_ip = out[2].dns_ip
    /\ out[3].kind = "reverse"
    /\ dnsCalls = 1

\* The zones without their serial and without the server address.
StripAddress(zones) ==
    [i \in DOMAIN zones |-> [zones[i] EXCEPT !.serial = 0, !.dns_ip = None]]

\* C30: when the server address resolves into the loopback network, one
\* warning is logged, no error is raised, and the pass goes on with that
\* address: completed, it has yielded the zones that a completed pass with
\* a non-loopback address yields, apart from the dns_ip of the forward
\* zones, which is the loopback address. No warning is logged for an
\* address outside the loopback network.
C30_LoopbackWarnsAndProceeds ==
    /\ dnsAnswer = "127.0.0.1"
         => /\ zerr = None
            /\ zpc \in { "forward", "reverse", "idle" }
            /\ warnings = 1
            /\ dnsIp = "127.0.0.1"
    /\ dnsAnswer = "192.168.0.1" => warnings = 0
    /\ \A p, q \in DOMAIN passes :
         ( /\ ends[p].err = None
           /\ ends[q].err = None
           /\ IsLoopback(ends[p].dns_ip)
           /\ ~ IsLoopback(ends[q].dns_ip) )
           => /\ StripAddress(passes[p]) = StripAddress(passes[q])
              /\ ForwardCarry(passes[p], "127.0.0.1")

\* One pass resolved the loopback address, logged the warning and yielded
\* forward and reverse zones to the end; the other pass of the generator
\* resolved an address outside the loopback network.
C30_Witness ==
    /\ zpc = "idle"
    /\ Len(passes) = 2
    /\ ends[1].err = None
    /\ ends[1].dns_ip = "192.168.0.1"
    /\ ends[2].err = None
    /\ ends[2].dns_ip = "127.0.0.1"
    /\ warnings = 1
    /\ Len(passes[2]) >= 3
    /\ passes[2][1].kind = "forward"
    /\ passes[2][1].dns_ip = "127.0.0.1"
    /\ passes[2][Len(passes[2])].kind = "reverse"

\* ------------------------------------------------- lease reconciler claims

\* A step that applies one lease event.
Applied == nEvents' = nEvents + 1

\* The event is one make_kwargs builds: its ip_family is that of its ip.
WellFormed(e) == e.ip_family = FamilyName(e.ip.version)

\* C2: after any sequence of lease events every interface has at most one
\* DISCOVERED assignment per address family.
C2_AtMostOneDiscoveredPerFamily ==
    \A i \in interfaces : \A v \in { 4, 6 } :
        Cardinality(DiscoveredFor(addresses, { i.id }, v)) <= 1

\* Two events were applied and an interface holds a DISCOVERED assignment
\* in each family.
C2_Witness ==
    /\ nEvents = 2
    /\ \E i \in interfaces : \A v \in { 4, 6 } :
           Cardinality(DiscoveredFor(addresses, { i.id }, v)) = 1

\* C3: applying the same commit a second time leaves the store as the first
\* application left it, with exactly one DISCOVERED assignment for the
\* interfaces of the MAC in the event's family.
C3_CommitIdempotent ==
    [][ ( /\ Applied
          /\ lastEvent' = lastEvent
          /\ lastEvent.action = "commit"
          /\ result = "ok" )
        => /\ interfaces' = interfaces
           /\ addresses' = addresses
           /\ result' = "ok"
           /\ \A i \in InterfacesForMac(interfaces', lastEvent.mac) :
                Cardinality(DiscoveredFor(addresses', { i.id },
                                          lastEvent.ip.version)) = 1
           /\ Cardinality(InterfacesForMac(interfaces', lastEvent.mac))
                = Cardinality(InterfacesForMac(interfaces, lastEvent.mac))
      ]_vars

\* A successful commit was applied twice in a row.
C3_Witness ==
    /\ replay
    /\ lastEvent.action = "commit"
    /\ result = "ok"
    /\ nEvents = 2

\* The other of release and expiry.
OtherEnd(e) ==
    [e EXCEPT !.action = IF e.action = "release" THEN "expiry" ELSE "release"]

\* C4: whatever the interleaving of the transactions that apply lease events
\* for one (subnet, MAC, family), the store never holds two DISCOVERED rows
\* for the tuple, and never a second interface for a MAC that had one: a MAC
\* no interface carried gets one UnknownInterface, a registered MAC none.
C4_NoDuplicateUnderConcurrency ==
    LET fs == InterfacesForMac(interfaces, tuple[2])
    IN  /\ Cardinality(DiscoveredFor(addresses, IdsOf(fs), tuple[3])) <= 1
        /\ \A i \in fs :
             Cardinality(DiscoveredFor(addresses, { i.id }, tuple[3])) <= 1
        /\ Cardinality({ i \in fs : i.type = "unknown" }) <= 1
        /\ (\E i \in fs : i.type # "unknown")
             => (\A i \in fs : i.type # "unknown")

\* One transaction has written the row of the tuple while another process
\* waits with an event for the same tuple.
C4_Witness ==
    \E p \in Procs : \E q \in Procs :
        /\ pc[p] = "unlock"
        /\ pc[q] = "wait"
        /\ pevent[q].action = "commit"
        /\ Cardinality(DiscoveredFor(addresses,
               IdsOf(InterfacesForMac(interfaces, tuple[2])), tuple[3])) = 1

\* C5: a release or an expiry that follows a commit for the same MAC and ip
\* leaves exactly one row for the interface and family, the row of the
\* commit, with ip null and its subnet and interfaces unchanged; release and
\* expiry leave the same store.
C5_ReleaseAfterCommit ==
    [][ ( /\ Applied
          /\ lastEvent.action = "commit"
          /\ result = "ok"
          /\ lastEvent'.action \in { "release", "expiry" }
          /\ lastEvent'.mac = lastEvent.mac
          /\ lastEvent'.ip = lastEvent.ip
          /\ lastEvent'.ip_family = lastEvent.ip_family )
        => LET ids == IdsOf(InterfacesForMac(interfaces, lastEvent.mac))
               before == DiscoveredFor(addresses, ids, lastEvent.ip.version)
               after == DiscoveredFor(addresses', ids, lastEvent.ip.version)
               other == update_lease(db, OtherEnd(lastEvent')).db
           IN  /\ result' = "ok"
               /\ interfaces' = interfaces
               /\ Cardinality(before) = 1
               /\ Cardinality(after) = 1
               /\ \A o \in before : \A r \in after :
                    /\ r.id = o.id
                    /\ r.ip = NoIP
                    /\ r.subnet = o.subnet
                    /\ r.interface_set = o.interface_set
                    /\ r.alloc_type = DISCOVERED
               /\ Cardinality(addresses') = Cardinality(addresses)
               /\ other.interfaces = interfaces'
               /\ other.addresses = addresses'
      ]_vars

\* A commit was followed by a release of the same lease: the row of the
\* commit is there with its lease_time and no ip.
C5_Witness ==
    /\ nEvents = 2
    /\ lastEvent.action \in { "release", "expiry" }
    /\ result = "ok"
    /\ \E r \in addresses :
         /\ r.alloc_type = DISCOVERED
         /\ r.ip = NoIP
         /\ r.lease_time # NullLease
         /\ r.subnet = get_best_subnet_for_ip(lastEvent.ip).id

\* C6: a commit for a MAC no interface carries, with an ip of a known
\* subnet, creates one UnknownInterface on the subnet's VLAN and one
\* DISCOVERED assignment on it with the event's ip, subnet, lease_time and
\* timestamp (as created and as updated).
C6_CommitUnknownMac ==
    [][ ( /\ Applied
          /\ lastEvent'.action = "commit"
          /\ WellFormed(lastEvent')
          /\ get_best_subnet_for_ip(lastEvent'.ip) # NoSubnet
          /\ InterfacesForMac(interfaces, lastEvent'.mac) = {} )
        => LET e == lastEvent'
               subnet == get_best_subnet_for_ip(e.ip)
               made == interfaces' \ interfaces
               rows == addresses' \ addresses
           IN  /\ result' = "ok"
               /\ interfaces \subseteq interfaces'
               /\ addresses \subseteq addresses'
               /\ Cardinality(made) = 1
               /\ Cardinality(rows) = 1
               /\ Cardinality(InterfacesForMac(interfaces', e.mac)) = 1
               /\ \A u \in made : \A r \in rows :
                    /\ u.type = "unknown"
                    /\ u.mac_address = e.mac
                    /\ u.vlan = subnet.vlan
                    /\ r.alloc_type = DISCOVERED
                    /\ r.ip = e.ip
                    /\ r.subnet = subnet.id
                    /\ r.lease_time = e.lease_time
                    /\ r.created = e.timestamp
                    /\ r.updated = e.timestamp
                    /\ r.interface_set = { u.id }
      ]_vars

\* The first event was a commit for the unregistered MAC: its
\* UnknownInterface and its assignment exist.
C6_Witness ==
    /\ nEvents = 1
    /\ lastEvent.action = "commit"
    /\ lastEvent.mac = "m2"
    /\ \E u \in interfaces : \E r \in addresses :
         /\ u.type = "unknown"
         /\ r.interface_set = { u.id }
         /\ r.ip = lastEvent.ip

\* C7: a release or an expiry for a MAC no interface carries, with an ip of
\* a known subnet, raises nothing and leaves the store unchanged.
C7_ReleaseUnknownMacNoop ==
    [][ ( /\ Applied
          /\ lastEvent'.action \in { "release", "expiry" }
          /\ WellFormed(lastEvent')
          /\ get_best_subnet_for_ip(lastEvent'.ip) # NoSubnet
          /\ InterfacesForMac(interfaces, lastEvent'.mac) = {} )
        => /\ result' = "ok"
           /\ interfaces' = interfaces
           /\ addresses' = addresses
           /\ nextIface' = nextIface
           /\ nextSip' = nextSip
      ]_vars

\* A release or an expiry for the unregistered MAC was applied to the
\* initial store.
C7_Witness ==
    /\ nEvents = 1
    /\ lastEvent.action \in { "release", "expiry" }
    /\ lastEvent.mac = "m2"
    /\ get_best_subnet_for_ip(lastEvent.ip) # NoSubnet
    /\ WellFormed(lastEvent)
    /\ result = "ok"
    /\ InterfacesForMac(interfaces, "m2") = {}

\* C8: an action other than commit, release and expiry raises
\* "Unknown lease action: <action>", also when the ip is in no subnet.
C8_UnknownAction ==
    ( lastEvent # NoEvent /\ lastEvent.action \notin ValidActions )
    => result = "Unknown lease action: " \o lastEvent.action

\* An unknown action arrived with an ip of no subnet.
C8_Witness ==
    /\ lastEvent # NoEvent
    /\ lastEvent.action = "renew"
    /\ get_best_subnet_for_ip(lastEvent.ip) = NoSubnet
    /\ result = "Unknown lease action: renew"

\* C9: a commit, release or expiry whose ip is in no known subnet raises
\* "No subnet exists for: <ip>" with the ip as the event wrote it.
C9_NoSubnet ==
    ( /\ lastEvent # NoEvent
      /\ lastEvent.action \in ValidActions
      /\ get_best_subnet_for_ip(lastEvent.ip) = NoSubnet )
    => result = "No subnet exists for: " \o IPText(lastEvent.ip)

\* A release named an ip of no subnet.
C9_Witness ==
    /\ lastEvent # NoEvent
    /\ lastEvent.action = "release"
    /\ result = "No subnet exists for: 10.9.0.5"

\* The event names a known action and a family other than that of the
\* subnet of its ip.
FamilyMismatch(e) ==
    /\ e # NoEvent
    /\ e.action \in ValidActions
    /\ get_best_subnet_for_ip(e.ip) # NoSubnet
    /\ e.ip_family # FamilyName(get_best_subnet_for_ip(e.ip).version)

\* C10 as stated: on a family mismatch the error names the family of the
\* resolved subnet.
C10_NamesSubnetFamily ==
    FamilyMismatch(lastEvent)
    => result = "Family for the subnet does not match. Expected: "
                  \o FamilyName(get_best_subnet_for_ip(lastEvent.ip).version)

\* C10, amended: on a family mismatch the error names the family the event
\* declared.
C10_NamesEventFamily ==
    FamilyMismatch(lastEvent)
    => result = "Family for the subnet does not match. Expected: "
                  \o lastEvent.ip_family

\* An event declared ipv4 for an ip of the IPv6 subnet.
C10_Witness ==
    /\ FamilyMismatch(lastEvent)
    /\ lastEvent.ip_family = "ipv4"
    /\ lastEvent.ip.version = 6
    /\ result = "Family for the subnet does not match. Expected: ipv4"

\* C11: a lease event changes no assignment of another allocation type, and
\* an event that is applied leaves every DISCOVERED assignment of the other
\* address family as it was; the rows it adds or rewrites are DISCOVERED
\* rows of the family of its ip.
C11_OtherFamilyUntouched ==
    [][ Applied
        => LET e == lastEvent'
           IN  /\ \A r \in addresses :
                    r.alloc_type # DISCOVERED => r \in addresses'
               /\ result' = "ok"
                    => /\ \A r \in addresses :
                            RowFamily(r) # e.ip.version => r \in addresses'
                       /\ \A r \in addresses' \ addresses :
                            /\ r.alloc_type = DISCOVERED
                            /\ RowFamily(r) = e.ip.version
               /\ result' # "ok" => addresses' = addresses
      ]_vars

\* A commit was applied to the registered MAC whose interface holds a
\* DISCOVERED assignment of the other family, written by the event before.
C11_Witness ==
    /\ nEvents = 2
    /\ lastEvent.action = "commit"
    /\ lastEvent.mac = BootInterface.mac_address
    /\ result = "ok"
    /\ \E r \in addresses : \E q \in addresses :
         /\ r.alloc_type = DISCOVERED
         /\ q.alloc_type = DISCOVERED
         /\ BootInterface.id \in r.interface_set
         /\ BootInterface.id \in q.interface_set
         /\ r.ip # NoIP
         /\ RowFamily(r) # lastEvent.ip.version
         /\ q.ip = lastEvent.ip
    /\ \E r \in addresses : r.alloc_type = STICKY

\* C21: on a family mismatch, of a commit, a release or an expiry alike,
\* the message is 'Family for the subnet does not match. Expected: ipv4'
\* for an event that says ipv4 on an IPv6 subnet and '... Expected: ipv6'
\* for one that says ipv6 on an IPv4 subnet.
C21_MismatchMessageExact ==
    \A a \in ValidActions :
        (FamilyMismatch(lastEvent) /\ lastEvent.action = a)
            => LET subnet == get_best_subnet_for_ip(lastEvent.ip)
               IN  /\ (lastEvent.ip_family = "ipv4" /\ subnet.version = 6)
                        => result = "Family for the subnet does not match. "
                                      \o "Expected: ipv4"
                   /\ (lastEvent.ip_family = "ipv6" /\ subnet.version = 4)
                        => result = "Family for the subnet does not match. "
                                      \o "Expected: ipv6"
                   /\ \/ lastEvent.ip_family = "ipv4" /\ subnet.version = 6
                      \/ lastEvent.ip_family = "ipv6" /\ subnet.version = 4

\* A release declared ipv6 for an ip of an IPv4 subnet.
C21_Witness ==
    /\ FamilyMismatch(lastEvent)
    /\ lastEvent.action = "release"
    /\ lastEvent.ip_family = "ipv6"
    /\ lastEvent.ip.version = 4
    /\ result = "Family for the subnet does not match. Expected: ipv6"

\* C22: a release or an expiry for the MAC of the one registered interface
\* that carries it, while the interface has no DISCOVERED assignment, leaves
\* exactly one DISCOVERED assignment on the interface: its ip is null, its
\* subnet is the subnet of the event's ip and its interfaces are that
\* interface alone.
C22_ReleaseWithoutRowRemembersSubnet ==
    [][ ( /\ Applied
          /\ lastEvent'.action \in { "release", "expiry" }
          /\ WellFormed(lastEvent')
          /\ get_best_subnet_for_ip(lastEvent'.ip) # NoSubnet
          /\ Cardinality(InterfacesForMac(interfaces, lastEvent'.mac)) = 1
          /\ \A r \in addresses :
               r.alloc_type = DISCOVERED
                 => r.interface_set
                      \cap IdsOf(InterfacesForMac(interfaces, lastEvent'.mac))
                      = {} )
        => LET e == lastEvent'
               ids == IdsOf(InterfacesForMac(interfaces, e.mac))
               rows == { r \in addresses' :
                           /\ r.alloc_type = DISCOVERED
                           /\ r.interface_set \cap ids # {} }
           IN  /\ result' = "ok"
               /\ interfaces' = interfaces
               /\ addresses \subseteq addresses'
               /\ addresses' \ addresses = rows
               /\ Cardinality(rows) = 1
               /\ \A r \in rows :
                    /\ r.ip = NoIP
                    /\ r.subnet = get_best_subnet_for_ip(e.ip).id
                    /\ r.interface_set = ids
      ]_vars

\* An expiry for the MAC of the boot interface was the first event: the
\* interface has its one DISCOVERED assignment, without an ip.
C22_Witness ==
    /\ nEvents = 1
    /\ lastEvent.action = "expiry"
    /\ lastEvent.mac = BootInterface.mac_address
    /\ interfaces = { BootInterface }
    /\ result = "ok"
    /\ \E r \in addresses :
         /\ r.alloc_type = DISCOVERED
         /\ r.ip = NoIP
         /\ r.subnet = get_best_subnet_for_ip(lastEvent.ip).id
         /\ r.interface_set = { BootInterface.id }

\* C23: an event that fails with LeaseUpdateError leaves the store as it
\* was, interfaces and assignments alike, so that every event that follows
\* is applied as it would have been without the failed one.
C23_FailedEventChangesNothing ==
    [][ (Applied /\ result' # "ok")
        => /\ result' \in
                { "Unknown lease action: " \o lastEvent'.action,
                  "No subnet exists for: " \o IPText(lastEvent'.ip),
                  "Family for the subnet does not match. Expected: "
                      \o lastEvent'.ip_family }
           /\ interfaces' = interfaces
           /\ addresses' = addresses
           /\ nextIface' = nextIface
           /\ nextSip' = nextSip
      ]_vars

\* After an event that was applied, a commit for the unregistered MAC
\* failed on its family: no UnknownInterface was made for it.
C23_Witness ==
    /\ nEvents = 2
    /\ FamilyMismatch(lastEvent)
    /\ lastEvent.action = "commit"
    /\ lastEvent.mac = "m2"
    /\ result # "ok"
    /\ InterfacesForMac(interfaces, "m2") = {}
    /\ \E r \in addresses : r.alloc_type = DISCOVERED

\* C24: the assignment reflects the event applied last, whatever the
\* timestamps: after an event is applied for a MAC that has an interface,
\* the one DISCOVERED row of the MAC and the family has no ip if the event
\* was a release or an expiry, and the ip, lease_time, created and updated
\* of the event if it was a commit, also when the row was written by a
\* commit with a later timestamp.
C24_LastAppliedWins ==
    [][ ( /\ Applied
          /\ result' = "ok"
          /\ InterfacesForMac(interfaces', lastEvent'.mac) # {} )
        => LET e == lastEvent'
               ids == IdsOf(InterfacesForMac(interfaces', e.mac))
               rows == { r \in addresses' :
                           /\ r.alloc_type = DISCOVERED
                           /\ r.interface_set \cap ids # {}
                           /\ RowFamily(r) = e.ip.version }
           IN  /\ Cardinality(rows) = 1
               /\ \A r \in rows :
                    IF e.action = "commit"
                    THEN /\ r.ip = e.ip
                         /\ r.lease_time = e.lease_time
                         /\ r.created = e.timestamp
                         /\ r.updated = e.timestamp
                    ELSE r.ip = NoIP
      ]_vars

\* A commit stamped 2 was followed, for the same MAC and family, by an
\* event stamped 1.
LaterThenEarlier ==
    /\ nEvents = 2
    /\ result = "ok"
    /\ lastEvent.timestamp = 1
    /\ \E r \in addresses :
         /\ r.alloc_type = DISCOVERED
         /\ RowFamily(r) = lastEvent.ip.version
         /\ r.interface_set
              \cap IdsOf(InterfacesForMac(interfaces, lastEvent.mac)) # {}
         /\ \/ /\ lastEvent.action = "release"
               /\ r.ip = NoIP
               /\ r.updated = 2
               /\ r.lease_time # NullLease
            \/ /\ lastEvent.action = "commit"
               /\ r.updated = 1
               /\ r.id = 2
               /\ nextSip = 3

C24_Witness == LaterThenEarlier /\ lastEvent.action = "release"

\* C25: a commit for a MAC that a physical interface and the bond built on
\* it both carry leaves one DISCOVERED assignment of the event's family,
\* linked to both interfaces, with the event's ip; no interface is created
\* and neither interface has a row of its own.
C25_SharedMacOneAssignment ==
    [][ ( /\ Applied
          /\ lastEvent'.action = "commit"
          /\ result' = "ok"
          /\ Cardinality(InterfacesForMac(interfaces, lastEvent'.mac)) >= 2 )
        => LET e == lastEvent'
               ids == IdsOf(InterfacesForMac(interfaces, e.mac))
               rows == { r \in addresses' :
                           /\ r.alloc_type = DISCOVERED
                           /\ r.interface_set \cap ids # {}
                           /\ RowFamily(r) = e.ip.version }
           IN  /\ interfaces' = interfaces
               /\ \A i \in InterfacesForMac(interfaces', e.mac) :
                    i.type # "unknown"
               /\ Cardinality(rows) = 1
               /\ \A r \in rows :
                    /\ r.interface_set = ids
                    /\ r.ip = e.ip
                    /\ r.subnet = get_best_subnet_for_ip(e.ip).id
      ]_vars

\* The first event was a commit for the MAC of the boot interface and its
\* bond: its one row is linked to both.
C25_Witness ==
    /\ nEvents = 1
    /\ interfaces = { BootInterface, BondInterface }
    /\ lastEvent.action = "commit"
    /\ lastEvent.mac = BondInterface.mac_address
    /\ result = "ok"
    /\ \E r \in addresses :
         /\ r.alloc_type = DISCOVERED
         /\ r.ip = lastEvent.ip
         /\ r.interface_set = { BootInterface.id, BondInterface.id }

====
